---- MODULE Spec2Model ----
(***************************************************************************)
(* A model of proxycfg.Manager (agent/proxycfg/manager.go): the            *)
(* reconciliation loop Run, the proxy registry m.proxies, the watcher      *)
(* registry m.watchers, the broadcast notify, Watch and its CancelFunc,    *)
(* and Close.                                                              *)
(*                                                                         *)
(* Every method body that runs between m.mu.Lock() and m.mu.Unlock() is    *)
(* one action.  The steps Run takes outside the lock (State.Notify, the    *)
(* receive on stateCh, the deferred State.StopNotify) and the step the     *)
(* forwarding goroutine takes outside the lock (the receive from the       *)
(* state's snapshot channel) are actions of their own, so that every       *)
(* interleaving the mutex allows is a behaviour of the model.              *)
(*                                                                         *)
(* The collaborators that manager.go only calls (the per proxy state and   *)
(* local.State) are modelled at their boundary.                            *)
(***************************************************************************)
EXTENDS Integers, Sequences, FiniteSets, TLC

VARIABLES
    lim,         \* what the environment may do in the run (never changes)
    services,    \* local.State: service ID -> registered service
    ops,         \* number of calls and events from outside so far
    sigBuf,      \* number of values buffered in the stateCh channel (0 or 1)
    sigClosed,   \* the stateCh channel has been closed
    mStateCh,    \* the field m.stateCh: "ch" or "nil"
    subscribed,  \* the channel is registered with cfg.State.Notify
    panicked,    \* a goroutine panicked (the process is gone)
    runPc,       \* where the goroutine calling Run is
    runErr,      \* what the last Run call returned
    closeCalls,  \* number of Close calls so far
    closeAt,     \* where Run was when Close was first called
    proxies,     \* m.proxies: proxy ID -> index of its state in insts (0: no entry)
    insts,       \* per proxy ID, every state newState ever made for it
    logged,      \* service IDs whose ensure failed in the last pass (the [ERR] log lines)
    mWatchers,   \* m.watchers: proxy ID -> (watch index -> watcher)
    wobj         \* every channel Watch ever made, with the last value its consumer received

vars == <<lim, services, ops, sigBuf, sigClosed, mStateCh, subscribed,
          panicked, runPc, runErr, closeCalls, closeAt, proxies, insts, logged,
          mWatchers, wobj>>

(***************************************************************************)
(* Values                                                                  *)
(***************************************************************************)
Proxies == {"p1", "p2"}

\* structs.ServiceKindConnectProxy and any other kind
ServiceKindConnectProxy == "connect-proxy"
ServiceKindTypical == "typical"
Kinds == {ServiceKindConnectProxy, ServiceKindTypical}

\* the distinct (service definition, token) pairs a service is registered with
Vers == {1, 2}

NoService == [kind |-> "absent", ver |-> 0]
Service(k, v) == [kind |-> k, ver |-> v]
ServiceValues == {Service(k, v) : k \in Kinds, v \in Vers}

\* capacity of stateCh
StateChCap == 1
\* capacity of the channel Watch returns
WatchChCap == 1

(***************************************************************************)
(* Maps with a changing key set (Go maps)                                  *)
(***************************************************************************)
EmptyMap == [x \in {} |-> 0]
MapPut(f, k, v) == [x \in (DOMAIN f) \cup {k} |-> IF x = k THEN v ELSE f[x]]
MapDelete(f, k) == [x \in (DOMAIN f) \ {k} |-> f[x]]

(***************************************************************************)
(* The per proxy watch state, type state: built from a service definition  *)
(* and a token, it produces a stream of snapshots tagged with its proxy ID, *)
(* keeps the latest one, tells whether a (definition, token) pair differs  *)
(* from the one it was built with, and Close ends its stream.              *)
(***************************************************************************)
Snapshot(p, g, k) == [ProxyID |-> p, gen |-> g, n |-> k]

\* newState followed by state.Watch and the start of the forwarding goroutine
NewState(v) ==
    [ver |-> v, closed |-> FALSE, n |-> 0, cur |-> <<>>, snapCh |-> <<>>,
     fpc |-> "recv", held |-> <<>>]

Changed(st, v) == st.ver # v

\* Close ends the stream: a snapshot the forwarding goroutine has not taken
\* yet is not handed out any more
CloseState(st) == [st EXCEPT !.closed = TRUE, !.snapCh = <<>>]

\* the latest snapshot as a sequence: <<>> when there is none (nil)
CurrentSnapshot(st) == st.cur

Tracked(pr) == {p \in Proxies : pr[p] # 0}

(***************************************************************************)
(* ensureProxyServiceLocked, removeProxyServiceLocked and one pass of Run  *)
(* over a record st = [proxies, insts, logged].                            *)
(***************************************************************************)
\* ensureProxyServiceLocked without the state.Close() of the state it replaces
EnsureNoClose(st, p, v, fail) ==
    LET g == st.proxies[p]
    IN  IF g # 0 /\ ~Changed(st.insts[p][g], v)
        THEN st
        ELSE IF fail
             THEN [st EXCEPT !.logged = @ \cup {p}]
             ELSE [proxies |-> [st.proxies EXCEPT ![p] = Len(st.insts[p]) + 1],
                   insts |-> [st.insts EXCEPT ![p] = Append(@, NewState(v))],
                   logged |-> st.logged]

EnsureProxyServiceLocked(st, p, v, fail) ==
    LET g == st.proxies[p]
        ok == g # 0
    IN  IF ok /\ ~Changed(st.insts[p][g], v)
        THEN st
        ELSE LET closedInsts == IF ok THEN [st.insts EXCEPT ![p][g] = CloseState(@)]
                                      ELSE st.insts
             IN  IF fail
                 THEN [proxies |-> st.proxies,
                       insts |-> closedInsts,
                       logged |-> st.logged \cup {p}]
                 ELSE [proxies |-> [st.proxies EXCEPT ![p] = Len(closedInsts[p]) + 1],
                       insts |-> [closedInsts EXCEPT ![p] = Append(@, NewState(v))],
                       logged |-> st.logged]

\* removeProxyServiceLocked without the delete from m.proxies
RemoveKeepsEntry(st, p) ==
    LET g == st.proxies[p]
    IN  IF g = 0
        THEN st
        ELSE [proxies |-> st.proxies,
              insts |-> [st.insts EXCEPT ![p][g] = CloseState(@)],
              logged |-> st.logged]

RemoveProxyServiceLocked(st, p) ==
    LET g == st.proxies[p]
    IN  IF g = 0
        THEN st
        ELSE [proxies |-> [st.proxies EXCEPT ![p] = 0],
              insts |-> [st.insts EXCEPT ![p][g] = CloseState(@)],
              logged |-> st.logged]

\* the loop over services: svcs is the map State.Services() returned, F the
\* services for which newState or state.Watch returns an error in this pass
RECURSIVE EnsureAll(_, _, _, _)
EnsureAll(st, svcs, S, F) ==
    IF S = {}
    THEN st
    ELSE LET p == CHOOSE x \in S : TRUE
         IN  EnsureAll(IF svcs[p].kind # ServiceKindConnectProxy
                       THEN st
                       ELSE EnsureProxyServiceLocked(st, p, svcs[p].ver, p \in F),
                       svcs, S \ {p}, F)

\* the loop over m.proxies
RECURSIVE RemoveAll(_, _, _)
RemoveAll(st, svcs, S) ==
    IF S = {}
    THEN st
    ELSE LET p == CHOOSE x \in S : TRUE
         IN  RemoveAll(IF svcs[p] = NoService
                       THEN RemoveProxyServiceLocked(st, p)
                       ELSE st,
                       svcs, S \ {p})

Registered(svcs) == {p \in Proxies : svcs[p] # NoService}

Pass(st, svcs, F) ==
    LET ensured == EnsureAll([st EXCEPT !.logged = {}], svcs, Registered(svcs), F)
    IN  RemoveAll(ensured, svcs, Tracked(ensured.proxies))

(***************************************************************************)
(* Run                                                                     *)
(***************************************************************************)
\* Run without the check of stateCh against nil
RunCallNoCheck ==
    /\ ~panicked
    /\ runPc \in {"idle", "returned"}
    /\ runPc' = "notify"
    /\ runErr' = "none"
    /\ UNCHANGED <<lim, services, ops, sigBuf, sigClosed, mStateCh, subscribed,
                   panicked, closeCalls, closeAt, proxies, insts, logged, mWatchers,
                   wobj>>

\* a call of Run up to the check of stateCh; Run has one caller at a time
RunCall ==
    /\ ~panicked
    /\ runPc \in {"idle", "returned"}
    /\ IF mStateCh = "nil"
       THEN runPc' = "returned" /\ runErr' = "ErrStopped"
       ELSE runPc' = "notify" /\ runErr' = "none"
    /\ UNCHANGED <<lim, services, ops, sigBuf, sigClosed, mStateCh, subscribed,
                   panicked, closeCalls, closeAt, proxies, insts, logged, mWatchers,
                   wobj>>

\* m.cfg.State.Notify(stateCh)
RunNotify ==
    /\ ~panicked
    /\ runPc = "notify"
    /\ subscribed' = TRUE
    /\ runPc' = "pass"
    /\ UNCHANGED <<lim, services, ops, sigBuf, sigClosed, mStateCh, panicked,
                   runErr, closeCalls, closeAt, proxies, insts, logged,
                   mWatchers, wobj>>

\* one pass of the loop, from m.mu.Lock() to m.mu.Unlock()
RunPass ==
    /\ ~panicked
    /\ runPc = "pass"
    /\ \E F \in lim.fails :
         LET st == Pass([proxies |-> proxies, insts |-> insts, logged |-> logged],
                        services, F)
         IN  /\ proxies' = st.proxies
             /\ insts' = st.insts
             /\ logged' = st.logged
    /\ runPc' = "wait"
    /\ UNCHANGED <<lim, services, ops, sigBuf, sigClosed, mStateCh, subscribed,
                   panicked, runErr, closeCalls, closeAt, mWatchers, wobj>>

\* _, ok := <-stateCh
RunWait ==
    /\ ~panicked
    /\ runPc = "wait"
    /\ \/ /\ sigBuf > 0
          /\ sigBuf' = sigBuf - 1
          /\ runPc' = "pass"
       \/ /\ sigBuf = 0
          /\ sigClosed
          /\ sigBuf' = sigBuf
          /\ runPc' = "stopping"
    /\ UNCHANGED <<lim, services, ops, sigClosed, mStateCh, subscribed,
                   panicked, runErr, closeCalls, closeAt, proxies, insts,
                   logged, mWatchers, wobj>>

\* return nil, running the deferred m.cfg.State.StopNotify(stateCh)
RunReturn ==
    /\ ~panicked
    /\ runPc = "stopping"
    /\ subscribed' = FALSE
    /\ runPc' = "returned"
    /\ runErr' = "nil"
    /\ UNCHANGED <<lim, services, ops, sigBuf, sigClosed, mStateCh, panicked,
                   closeCalls, closeAt, proxies, insts, logged, mWatchers,
                   wobj>>

(***************************************************************************)
(* local.State: a service is added, changed or removed, and every          *)
(* subscribed channel gets a non-blocking send.                            *)
(***************************************************************************)
RegistryChange(p, s) ==
    /\ ~panicked
    /\ ops < lim.ops
    /\ p \in lim.ids
    /\ s \in lim.svcs \cup {NoService}
    /\ s # services[p]
    /\ services' = [services EXCEPT ![p] = s]
    /\ ops' = ops + 1
    /\ IF ~subscribed
       THEN UNCHANGED <<sigBuf, panicked>>
       ELSE IF sigClosed
            THEN panicked' = TRUE /\ UNCHANGED sigBuf
            ELSE /\ sigBuf' = IF sigBuf < StateChCap THEN sigBuf + 1 ELSE sigBuf
                 /\ UNCHANGED panicked
    /\ UNCHANGED <<lim, sigClosed, mStateCh, subscribed, runPc, runErr,
                   closeCalls, closeAt, proxies, insts, logged, mWatchers, wobj>>

(***************************************************************************)
(* The state: it produces the next snapshot into its stream, which holds   *)
(* one snapshot until the forwarding goroutine takes it.                   *)
(***************************************************************************)
StateProduce(p, g) ==
    /\ ~panicked
    /\ g \in 1..Len(insts[p])
    /\ ~insts[p][g].closed
    /\ ops < lim.ops
    /\ ops' = ops + 1
    /\ insts[p][g].snapCh = <<>>
    /\ LET snap == Snapshot(p, g, insts[p][g].n + 1)
       IN  insts' = [insts EXCEPT ![p][g].n = @ + 1,
                                  ![p][g].cur = <<snap>>,
                                  ![p][g].snapCh = <<snap>>]
    /\ UNCHANGED <<lim, services, sigBuf, sigClosed, mStateCh, subscribed,
                   panicked, runPc, runErr, closeCalls, closeAt, proxies,
                   logged, mWatchers, wobj>>

(***************************************************************************)
(* The watcher registry                                                    *)
(***************************************************************************)
\* a channel Watch made: q is its buffer, closes the number of close(ch) done
\* on it, cancels the number of calls of its CancelFunc, last the value its
\* consumer received last, born the number of Close calls before its Watch.
\* For the order of deliveries: bl is the list of the snapshots notify was
\* called with for its proxy since its Watch, qb the position in bl of the
\* buffered value (0: put there by Watch), lastb the position in bl of the
\* last value its consumer received from a notify
NewWatcher(p, idx, q, c) ==
    [proxy |-> p, idx |-> idx, q |-> q, closes |-> 0, last |-> <<>>, cancels |-> 0,
     born |-> c, bl |-> <<>>, qb |-> [i \in 1..Len(q) |-> 0], lastb |-> 0]

\* the watchers m.watchers holds for proxy ID p
WatchersOf(mw, p) == IF p \in DOMAIN mw THEN {mw[p][i] : i \in DOMAIN mw[p]} ELSE {}

\* Watch without the delivery of the current snapshot
WatchLockedNoCurrent(mw, wo, pr, ins, p, c) ==
    LET watchers == IF p \in DOMAIN mw THEN mw[p] ELSE EmptyMap
        idx == Cardinality(DOMAIN watchers)
        w == Len(wo) + 1
    IN  [mw |-> MapPut(mw, p, MapPut(watchers, idx, w)),
         wo |-> Append(wo, NewWatcher(p, idx, <<>>, c)),
         panic |-> FALSE]

\* the body of Watch over m.watchers (mw), the channels (wo), m.proxies (pr)
\* and the states (ins): the new registry and channels
WatchLocked(mw, wo, pr, ins, p, c) ==
    LET watchers == IF p \in DOMAIN mw THEN mw[p] ELSE EmptyMap
        idx == Cardinality(DOMAIN watchers)
        w == Len(wo) + 1
        q == IF pr[p] # 0 THEN CurrentSnapshot(ins[p][pr[p]]) ELSE <<>>
    IN  [mw |-> MapPut(mw, p, MapPut(watchers, idx, w)),
         wo |-> Append(wo, NewWatcher(p, idx, q, c)),
         panic |-> FALSE]

\* closeWatchLocked without the delete from the inner map
CloseWatchKeepsEntry(st, p, idx) ==
    IF p \in DOMAIN st.mw /\ idx \in DOMAIN st.mw[p]
    THEN LET w == st.mw[p][idx]
         IN  [mw |-> st.mw,
              wo |-> [st.wo EXCEPT ![w].closes = @ + 1],
              panic |-> st.panic \/ st.wo[w].closes > 0]
    ELSE st

\* closeWatchLocked that leaves the empty inner map in m.watchers
CloseWatchKeepsProxy(st, p, idx) ==
    IF p \in DOMAIN st.mw /\ idx \in DOMAIN st.mw[p]
    THEN LET w == st.mw[p][idx]
         IN  [mw |-> MapPut(st.mw, p, MapDelete(st.mw[p], idx)),
              wo |-> [st.wo EXCEPT ![w].closes = @ + 1],
              panic |-> st.panic \/ st.wo[w].closes > 0]
    ELSE st

\* closeWatchLocked over a record st = [mw, wo, panic]; closing a closed
\* channel panics
CloseWatchLocked(st, p, idx) ==
    IF p \in DOMAIN st.mw /\ idx \in DOMAIN st.mw[p]
    THEN LET w == st.mw[p][idx]
             rest == MapDelete(st.mw[p], idx)
         IN  [mw |-> IF DOMAIN rest = {} THEN MapDelete(st.mw, p)
                                        ELSE MapPut(st.mw, p, rest),
              wo |-> [st.wo EXCEPT ![w].closes = @ + 1],
              panic |-> st.panic \/ st.wo[w].closes > 0]
    ELSE st

\* the consumer of a channel receives its first buffered value
Receive(wr) ==
    [wr EXCEPT !.last = <<Head(wr.q)>>,
               !.q = Tail(@),
               !.lastb = IF Head(wr.qb) > 0 THEN Head(wr.qb) ELSE @,
               !.qb = Tail(@)]

\* ch <- snap
Send(wr, snap) == [wr EXCEPT !.q = Append(@, snap), !.qb = Append(@, Len(wr.bl))]

\* the call notify(snap) is noted by every channel of the proxy that is in use
Issued(wr, snap) ==
    IF wr.proxy = snap.ProxyID /\ wr.closes = 0 /\ wr.cancels = 0
    THEN [wr EXCEPT !.bl = Append(@, snap)]
    ELSE wr

\* notify where a consumer that takes the value in the way is handed the new
\* snapshot and the value in the way stays in the channel
NotifyLockedOvertake(mw, wo, snap, D) ==
    LET ws == WatchersOf(mw, snap.ProxyID)
    IN  [mw |-> mw,
         wo |-> [w \in DOMAIN wo |->
                   LET wr == Issued(wo[w], snap)
                   IN  IF w \notin ws \/ wr.closes > 0
                       THEN wr
                       ELSE IF Len(wr.q) < WatchChCap
                            THEN Send(wr, snap)
                            ELSE IF w \in D
                                 THEN [wr EXCEPT !.last = <<snap>>, !.lastb = Len(wr.bl)]
                                 ELSE wr],
         panic |-> \E w \in ws : wo[w].closes > 0]

\* notify over m.watchers and the channels: D is the set of watchers whose
\* consumer takes the value in the way within the 100ms of the send
NotifyLocked(mw, wo, snap, D) ==
    LET ws == WatchersOf(mw, snap.ProxyID)
    IN  [mw |-> mw,
         wo |-> [w \in DOMAIN wo |->
                   LET wr == Issued(wo[w], snap)
                   IN  IF w \notin ws \/ wr.closes > 0
                       THEN wr
                       ELSE IF Len(wr.q) < WatchChCap
                            THEN Send(wr, snap)
                            ELSE IF w \in D
                                 THEN Send(Receive(wr), snap)
                                 ELSE wr],
         panic |-> \E w \in ws : wo[w].closes > 0]

\* the watchers of p whose channel is full
Full(mw, wo, p) == {w \in WatchersOf(mw, p) : Len(wo[w].q) = WatchChCap}

Watch(p) ==
    /\ ~panicked
    /\ ops < lim.ops
    /\ p \in lim.wids
    /\ ops' = ops + 1
    /\ LET st == WatchLocked(mWatchers, wobj, proxies, insts, p, closeCalls)
       IN  /\ mWatchers' = st.mw
           /\ wobj' = st.wo
    /\ UNCHANGED <<lim, services, sigBuf, sigClosed, mStateCh, subscribed,
                   panicked, runPc, runErr, closeCalls, closeAt, proxies,
                   insts, logged>>

\* a call of the CancelFunc Watch returned with channel w
Cancel(w) ==
    /\ ~panicked
    /\ w \in 1..Len(wobj)
    /\ ops < lim.ops
    /\ ops' = ops + 1
    /\ LET st == CloseWatchLocked([mw |-> mWatchers,
                                   wo |-> [wobj EXCEPT ![w].cancels = @ + 1],
                                   panic |-> FALSE],
                                  wobj[w].proxy, wobj[w].idx)
       IN  /\ mWatchers' = st.mw
           /\ wobj' = st.wo
           /\ panicked' = st.panic
    /\ UNCHANGED <<lim, services, sigBuf, sigClosed, mStateCh, subscribed,
                   runPc, runErr, closeCalls, closeAt, proxies, insts, logged>>

\* the consumer of channel w receives the buffered value
WatcherRecv(w) ==
    /\ ~panicked
    /\ w \in 1..Len(wobj)
    /\ wobj[w].q # <<>>
    /\ wobj' = [wobj EXCEPT ![w] = Receive(@)]
    /\ UNCHANGED <<lim, services, ops, sigBuf, sigClosed, mStateCh, subscribed,
                   panicked, runPc, runErr, closeCalls, closeAt, proxies,
                   insts, logged, mWatchers>>

(***************************************************************************)
(* The forwarding goroutine of state g of proxy p:                         *)
(*     for snap := range ch { m.notify(&snap) }                            *)
(***************************************************************************)
\* the receive from ch, outside the lock
FwdRecv(p, g) ==
    /\ ~panicked
    /\ g \in 1..Len(insts[p])
    /\ insts[p][g].fpc = "recv"
    /\ \/ /\ insts[p][g].snapCh # <<>>
          /\ insts' = [insts EXCEPT ![p][g].held = insts[p][g].snapCh,
                                     ![p][g].snapCh = <<>>,
                                     ![p][g].fpc = "notify"]
       \/ /\ insts[p][g].snapCh = <<>>
          /\ insts[p][g].closed
          /\ insts' = [insts EXCEPT ![p][g].fpc = "done"]
    /\ UNCHANGED <<lim, services, ops, sigBuf, sigClosed, mStateCh, subscribed,
                   panicked, runPc, runErr, closeCalls, closeAt, proxies,
                   logged, mWatchers, wobj>>

\* m.notify(&snap), from m.mu.Lock() to m.mu.Unlock()
FwdNotify(p, g) ==
    /\ ~panicked
    /\ g \in 1..Len(insts[p])
    /\ insts[p][g].fpc = "notify"
    /\ LET snap == Head(insts[p][g].held)
       IN  \E D \in SUBSET Full(mWatchers, wobj, snap.ProxyID) :
             LET st == NotifyLocked(mWatchers, wobj, snap, D)
             IN  /\ wobj' = st.wo
                 /\ panicked' = st.panic
    /\ insts' = [insts EXCEPT ![p][g].held = <<>>, ![p][g].fpc = "recv"]
    /\ UNCHANGED <<lim, services, ops, sigBuf, sigClosed, mStateCh, subscribed,
                   runPc, runErr, closeCalls, closeAt, proxies, logged,
                   mWatchers>>

(***************************************************************************)
(* Close                                                                   *)
(***************************************************************************)
\* the keys of m.watchers as pairs <<proxy ID, watch index>>
WatchKeys(mw) ==
    UNION {{<<p, i>> : i \in DOMAIN mw[p]} : p \in DOMAIN mw}

\* the loop over m.watchers
RECURSIVE CloseWatchers(_, _)
CloseWatchers(st, K) ==
    IF K = {}
    THEN st
    ELSE LET k == CHOOSE x \in K : TRUE
         IN  CloseWatchers(CloseWatchLocked(st, k[1], k[2]), K \ {k})

\* the loop over m.proxies
RECURSIVE CloseStates(_, _)
CloseStates(st, S) ==
    IF S = {}
    THEN st
    ELSE LET p == CHOOSE x \in S : TRUE
         IN  CloseStates([proxies |-> [st.proxies EXCEPT ![p] = 0],
                          insts |-> [st.insts EXCEPT ![p][st.proxies[p]] = CloseState(@)],
                          logged |-> st.logged],
                         S \ {p})

\* Close without m.stateCh = nil: it closes stateCh at every call
CloseNoNil ==
    /\ ~panicked
    /\ ops < lim.ops
    /\ ops' = ops + 1
    /\ closeCalls' = closeCalls + 1
    /\ closeAt' = IF closeCalls = 0 THEN runPc ELSE closeAt
    /\ sigClosed' = TRUE
    /\ mStateCh' = mStateCh
    /\ LET ws == CloseWatchers([mw |-> mWatchers, wo |-> wobj, panic |-> FALSE],
                               WatchKeys(mWatchers))
           ps == CloseStates([proxies |-> proxies, insts |-> insts, logged |-> logged],
                             Tracked(proxies))
       IN  /\ mWatchers' = ws.mw
           /\ wobj' = ws.wo
           /\ panicked' = (ws.panic \/ sigClosed)
           /\ proxies' = ps.proxies
           /\ insts' = ps.insts
    /\ UNCHANGED <<lim, services, sigBuf, subscribed, runPc, runErr,
                   logged>>

Close ==
    /\ ~panicked
    /\ ops < lim.ops
    /\ ops' = ops + 1
    /\ closeCalls' = closeCalls + 1
    /\ closeAt' = IF closeCalls = 0 THEN runPc ELSE closeAt
    /\ IF mStateCh # "nil"
       THEN sigClosed' = TRUE /\ mStateCh' = "nil"
       ELSE UNCHANGED <<sigClosed, mStateCh>>
    /\ LET ws == CloseWatchers([mw |-> mWatchers, wo |-> wobj, panic |-> FALSE],
                               WatchKeys(mWatchers))
           ps == CloseStates([proxies |-> proxies, insts |-> insts, logged |-> logged],
                             Tracked(proxies))
       IN  /\ mWatchers' = ws.mw
           /\ wobj' = ws.wo
           /\ panicked' = (ws.panic \/ (mStateCh # "nil" /\ sigClosed))
           /\ proxies' = ps.proxies
           /\ insts' = ps.insts
    /\ UNCHANGED <<lim, services, sigBuf, subscribed, runPc, runErr,
                   logged>>

(***************************************************************************)
(* The specification                                                       *)
(***************************************************************************)
\* the state NewManager returns, with the registry holding svcs
InitWith(l, svcs) ==
    /\ lim = l
    /\ services = svcs
    /\ ops = 0
    /\ sigBuf = 0
    /\ sigClosed = FALSE
    /\ mStateCh = "ch"
    /\ subscribed = FALSE
    /\ panicked = FALSE
    /\ runPc = "idle"
    /\ runErr = "none"
    /\ closeCalls = 0
    /\ closeAt = "none"
    /\ proxies = [p \in Proxies |-> 0]
    /\ insts = [p \in Proxies |-> <<>>]
    /\ logged = {}
    /\ mWatchers = EmptyMap
    /\ wobj = <<>>

\* the number of calls and events from outside in a run: registry changes,
\* snapshots produced, Watch, CancelFunc and Close calls
MaxOps == 4
WatchMaxOps == 5

EmptyRegistry == [p \in Proxies |-> NoService]

\* the registry holds the connect proxy p1 when the Manager is made
ProxyRegistry ==
    [p \in Proxies |-> IF p = "p1" THEN Service(ServiceKindConnectProxy, 1) ELSE NoService]

Init ==
    InitWith([ops |-> MaxOps, ids |-> Proxies, svcs |-> ServiceValues,
              wids |-> Proxies, fails |-> SUBSET Proxies],
             EmptyRegistry)

InitWatch ==
    InitWith([ops |-> WatchMaxOps, ids |-> {"p1"},
              svcs |-> {Service(ServiceKindConnectProxy, 2)},
              wids |-> {"p1"}, fails |-> {{}}],
             ProxyRegistry)

Next ==
    \/ RunCall
    \/ RunNotify
    \/ RunPass
    \/ RunWait
    \/ RunReturn
    \/ Close
    \/ \E p \in Proxies : \E s \in ServiceValues \cup {NoService} : RegistryChange(p, s)
    \/ \E p \in Proxies : \E g \in 1..Len(insts[p]) : StateProduce(p, g)
    \/ \E p \in Proxies : \E g \in 1..Len(insts[p]) : FwdRecv(p, g)
    \/ \E p \in Proxies : \E g \in 1..Len(insts[p]) : FwdNotify(p, g)
    \/ \E p \in Proxies : Watch(p)
    \/ \E w \in 1..Len(wobj) : Cancel(w)
    \/ \E w \in 1..Len(wobj) : WatcherRecv(w)

Spec == Init /\ [][Next]_vars

SpecWatch == InitWatch /\ [][Next]_vars

(***************************************************************************)
(* Steps, as seen from a pair of states                                    *)
(***************************************************************************)
\* the step is a call of Run
IsRunCall == runPc \in {"idle", "returned"} /\ (runPc' # runPc \/ runErr' # runErr)

\* the step is a reconciliation pass
IsPass == runPc = "pass" /\ runPc' = "wait"

\* the step is the notify of the forwarding goroutine of state g of proxy p
IsNotify(p, g) ==
    /\ g \in 1..Len(insts[p])
    /\ insts[p][g].fpc = "notify"
    /\ insts'[p][g].fpc = "recv"

\* the steps of Run after the call
RunStep == RunNotify \/ RunPass \/ RunWait \/ RunReturn

ConnectProxies(svcs) == {p \in Proxies : svcs[p].kind = ServiceKindConnectProxy}

(***************************************************************************)
(* C1: a Run call made after Close returns ErrStopped at once: it does not *)
(* subscribe the change signal, runs no pass and creates no watch state.   *)
(***************************************************************************)
C1_RunAfterCloseStopped ==
    [][(IsRunCall /\ closeCalls > 0) =>
          /\ runPc' = "returned"
          /\ runErr' = "ErrStopped"
          /\ UNCHANGED <<subscribed, sigBuf, proxies, insts, logged>>]_vars

C1_Witness == closeCalls > 0 /\ runPc = "returned" /\ runErr = "ErrStopped"

(***************************************************************************)
(* C2: when Close is called while Run waits for a change notification, Run *)
(* returns and never blocks for ever: until it has returned, the goroutine *)
(* running it can take its next step.                                      *)
(***************************************************************************)
C2_RunReturnsAfterClose ==
    closeAt = "wait" => (runPc = "returned" \/ ENABLED RunStep)

(***************************************************************************)
(* C3: once Close has returned and Run is not running, the proxy registry  *)
(* is empty, every watch state ever made is closed, and every channel that *)
(* was registered when Close was called is closed.                         *)
(***************************************************************************)
C3_NothingHeldAfterClose ==
    (closeCalls > 0 /\ runPc \in {"idle", "returned"}) =>
        /\ Tracked(proxies) = {}
        /\ \A p \in Proxies : \A g \in 1..Len(insts[p]) : insts[p][g].closed
        /\ \A w \in 1..Len(wobj) :
             (wobj[w].born = 0 /\ wobj[w].cancels = 0) => wobj[w].closes > 0

(***************************************************************************)
(* C4: the channel Watch(p) returns holds the current snapshot of the      *)
(* state tracked for p when there is one and is empty otherwise, also when *)
(* p is not tracked; an empty channel of a watcher of p gets a value only  *)
(* from a notify for p.                                                    *)
(***************************************************************************)
C4_WatchDeliversCurrent ==
    [][/\ Len(wobj') = Len(wobj) + 1 =>
            LET w == Len(wobj')
                p == wobj'[w].proxy
            IN  wobj'[w].q = IF proxies[p] # 0 /\ insts[p][proxies[p]].cur # <<>>
                             THEN <<insts[p][proxies[p]].cur[1]>>
                             ELSE <<>>
       /\ \A w \in 1..Len(wobj) :
            (wobj[w].q = <<>> /\ wobj'[w].q # <<>>) =>
                \E g \in 1..Len(insts[wobj[w].proxy]) :
                    /\ IsNotify(wobj[w].proxy, g)
                    /\ wobj'[w].q = insts[wobj[w].proxy][g].held]_vars

\* Watch returned the snapshot of a state whose forwarding goroutine has
\* broadcast nothing yet, and another watcher of a proxy never tracked waits
C4_Witness ==
    \E w \in 1..Len(wobj) :
        LET p == wobj[w].proxy
        IN  /\ wobj[w].q # <<>>
            /\ proxies[p] # 0
            /\ insts[p][proxies[p]].snapCh = wobj[w].q
            /\ insts[p][proxies[p]].fpc = "recv"
            /\ insts[p][proxies[p]].n = 1
            /\ \E v \in 1..Len(wobj) :
                 /\ wobj[v].q = <<>>
                 /\ Len(insts[wobj[v].proxy]) = 0

(***************************************************************************)
(* C5: a watcher of p that was not cancelled has a snapshot in its channel *)
(* or has received one, once the state tracked for p has produced a        *)
(* snapshot and its forwarding goroutine has broadcast it; every value it  *)
(* gets is tagged p.                                                       *)
(***************************************************************************)
C5_WatcherGetsSnapshot ==
    \A w \in 1..Len(wobj) :
        LET p == wobj[w].proxy
        IN  /\ (/\ wobj[w].cancels = 0
                /\ closeCalls = 0
                /\ p \in ConnectProxies(services)
                /\ proxies[p] # 0
                /\ ~insts[p][proxies[p]].closed
                /\ insts[p][proxies[p]].cur # <<>>
                /\ insts[p][proxies[p]].snapCh = <<>>
                /\ insts[p][proxies[p]].fpc = "recv")
               => (wobj[w].q # <<>> \/ wobj[w].last # <<>>)
            /\ \A i \in 1..Len(wobj[w].q) : wobj[w].q[i].ProxyID = p
            /\ \A i \in 1..Len(wobj[w].last) : wobj[w].last[i].ProxyID = p

(***************************************************************************)
(* C6: at the end of every pass the set of tracked proxies is the set of   *)
(* connect proxy services of the registry the pass read, less those whose  *)
(* watch state could not be made or started in the pass; stated for the    *)
(* passes in which none fails, where nothing is to be taken away.          *)
(***************************************************************************)
C6_TrackedEqualsRegistered ==
    [][(IsPass /\ logged' = {}) =>
          Tracked(proxies') = ConnectProxies(services) \ logged']_vars

(***************************************************************************)
(* C7: a proxy whose watch state could not be made or started in a pass    *)
(* has no entry in the proxy registry after the pass, and the proxy        *)
(* registry never holds a closed watch state.                              *)
(***************************************************************************)
C7_FailedProxyUntracked ==
    [][/\ IsPass => logged' \cap Tracked(proxies') = {}
       /\ \A p \in Tracked(proxies') : ~insts'[p][proxies'[p]].closed]_vars

(***************************************************************************)
(* C8: a pass that finds a tracked proxy gone from the registry closes its *)
(* watch state and deletes it from the proxy registry, and the pass leaves *)
(* the watcher registry and every watcher channel as they were.            *)
(***************************************************************************)
C8_RemoveLeavesWatchers ==
    [][IsPass =>
          /\ \A p \in Tracked(proxies) :
                services[p] = NoService =>
                    /\ proxies'[p] = 0
                    /\ insts'[p][proxies[p]].closed
          /\ mWatchers' = mWatchers
          /\ wobj' = wobj]_vars

\* a pass removed a proxy that has a watcher with a snapshot in its channel
C8_Witness ==
    \E p \in Proxies :
        /\ runPc = "wait"
        /\ closeCalls = 0
        /\ services[p] = NoService
        /\ proxies[p] = 0
        /\ Len(insts[p]) = 1
        /\ insts[p][1].closed
        /\ p \in DOMAIN mWatchers
        /\ \E w \in WatchersOf(mWatchers, p) : wobj[w].q # <<>> /\ wobj[w].closes = 0

(***************************************************************************)
(* C9: no broadcast puts a snapshot of a watch state that a pass has       *)
(* closed (to replace it or to remove it) in the channel of a watcher.     *)
(***************************************************************************)
C9_NoDeliveryFromClosedState ==
    [][\A w \in 1..Len(wobj) :
          (closeCalls = 0 /\ wobj'[w].q # <<>> /\ wobj'[w].q # wobj[w].q) =>
              ~insts[wobj'[w].q[1].ProxyID][wobj'[w].q[1].gen].closed]_vars

(***************************************************************************)
(* C10: a notify of a snapshot of p puts it in the channel of every        *)
(* watcher of p that was registered, is not cancelled and has room, leaves *)
(* the full channels that are not drained as they are, and changes no      *)
(* channel of a watcher of another proxy.                                  *)
(***************************************************************************)
C10_NotifyReachesEveryWatcher ==
    [][\A p \in Proxies : \A g \in 1..Len(insts[p]) :
          IsNotify(p, g) =>
              \A w \in 1..Len(wobj) :
                  /\ (/\ wobj[w].proxy = p
                      /\ wobj[w].cancels = 0
                      /\ wobj[w].closes = 0
                      /\ wobj[w].q = <<>>)
                     => wobj'[w].q = insts[p][g].held
                  /\ wobj[w].proxy # p => wobj'[w] = wobj[w]]_vars

(***************************************************************************)
(* C11: the snapshots a watcher receives from broadcasts come in the order *)
(* in which notify was called for its proxy: each value received stands    *)
(* later in the list of the notify calls than the one received before, and *)
(* a buffered value stands later than every value received.                *)
(***************************************************************************)
C11_DeliveriesInOrder ==
    [][\A w \in 1..Len(wobj) :
          /\ wobj'[w].lastb # wobj[w].lastb =>
                /\ wobj'[w].lastb > wobj[w].lastb
                /\ wobj'[w].lastb \in 1..Len(wobj'[w].bl)
                /\ wobj'[w].last = <<wobj'[w].bl[wobj'[w].lastb]>>
          /\ \A i \in 1..Len(wobj'[w].qb) :
                wobj'[w].qb[i] > 0 =>
                    /\ wobj'[w].qb[i] > wobj'[w].lastb
                    /\ wobj'[w].q[i] = wobj'[w].bl[wobj'[w].qb[i]]]_vars

\* a watcher received the first of three broadcasts, missed the second and
\* has the third in its channel
C11_Witness ==
    \E w \in 1..Len(wobj) :
        /\ Len(wobj[w].bl) = 3
        /\ wobj[w].lastb = 1
        /\ wobj[w].qb = <<3>>

(***************************************************************************)
(* C12: as long as Close is not called, a watcher whose CancelFunc was not *)
(* called is in the watcher registry under its proxy and its channel is    *)
(* open: no Watch and no CancelFunc of another watcher takes it out or     *)
(* closes its channel.                                                     *)
(***************************************************************************)
C12_WatcherStaysUntilCancelled ==
    \A w \in 1..Len(wobj) :
        (wobj[w].cancels = 0 /\ closeCalls = 0) =>
            /\ w \in WatchersOf(mWatchers, wobj[w].proxy)
            /\ wobj[w].closes = 0

(***************************************************************************)
(* C13: no watcher channel is closed twice and no closed channel is in the *)
(* watcher registry, so that notify, which sends only to the channels in   *)
(* the registry, never sends on a closed channel; no notify, CancelFunc or *)
(* Close step panics.                                                      *)
(***************************************************************************)
C13_NoDoubleCloseNoSendOnClosed ==
    [][/\ \A w \in 1..Len(wobj') :
            /\ wobj'[w].closes <= 1
            /\ wobj'[w].closes > 0 => w \notin WatchersOf(mWatchers', wobj'[w].proxy)
       /\ (mWatchers' # mWatchers \/ wobj' # wobj) => ~panicked']_vars

\* a watcher was cancelled, a later notify put a snapshot in the channel of
\* another watcher of the proxy, and Close followed
C13_Witness ==
    \E w, v \in 1..Len(wobj) :
        /\ w < v
        /\ wobj[v].proxy = wobj[w].proxy
        /\ wobj[v].idx # wobj[w].idx
        /\ wobj[v].born = 0
        /\ wobj[w].cancels = 1
        /\ wobj[w].closes = 1
        /\ wobj[w].bl = <<>>
        /\ wobj[v].closes = 1
        /\ wobj[v].cancels = 0
        /\ wobj[v].qb = <<1>>
        /\ closeCalls = 1
        /\ ~panicked

\* the watch states of p that were made and are not closed
OpenStates(ins, p) == {g \in 1..Len(ins[p]) : ~ins[p][g].closed}

(***************************************************************************)
(* C14: a proxy ID never has more than one open watch state, the open one  *)
(* is the one the proxy registry holds, and when a new state is made for a *)
(* proxy ID every state made for it before is closed.                      *)
(***************************************************************************)
C14_OneOpenStatePerProxy ==
    [][\A p \in Proxies :
          /\ Cardinality(OpenStates(insts', p)) <= 1
          /\ OpenStates(insts', p) \subseteq {proxies'[p]}
          /\ Len(insts'[p]) > Len(insts[p]) =>
                \A g \in 1..Len(insts[p]) : insts'[p][g].closed]_vars

\* a pass replaced the state of a proxy whose definition changed
C14_Witness ==
    \E p \in Proxies :
        /\ closeCalls = 0
        /\ logged = {}
        /\ Len(insts[p]) = 2
        /\ insts[p][1].closed
        /\ insts[p][1].ver # insts[p][2].ver
        /\ ~insts[p][2].closed
        /\ proxies[p] = 2

(***************************************************************************)
(* C15: when Run waits with no signal pending (every registry change so    *)
(* far has been followed by a pass), Close was not called and the last     *)
(* pass failed for no service, the tracked proxies are the connect proxy   *)
(* services of the registry.                                               *)
(***************************************************************************)
C15_TrackedConverges ==
    (runPc = "wait" /\ sigBuf = 0 /\ closeCalls = 0 /\ logged = {}) =>
        Tracked(proxies) = ConnectProxies(services)

(***************************************************************************)
(* C16: every proxy ID in the watcher registry has at least one watcher:   *)
(* the CancelFunc of the last watcher of a proxy takes the proxy ID out of *)
(* the outer map, and Close leaves the outer map empty.                    *)
(***************************************************************************)
C16_NoEmptyWatcherSet ==
    [][/\ \A p \in DOMAIN mWatchers' : DOMAIN mWatchers'[p] # {}
       /\ closeCalls' # closeCalls => mWatchers' = EmptyMap]_vars

\* the only watcher of one proxy was cancelled while another proxy keeps one
C16_Witness ==
    \E w, v \in 1..Len(wobj) :
        /\ wobj[w].cancels = 1
        /\ wobj[w].closes = 1
        /\ wobj[w].proxy \notin DOMAIN mWatchers
        /\ wobj[v].proxy \in DOMAIN mWatchers
        /\ v \in WatchersOf(mWatchers, wobj[v].proxy)

(***************************************************************************)
(* C17: a call of a CancelFunc that was called before closes no channel    *)
(* and leaves the watcher registry as it is.                               *)
(***************************************************************************)
C17_SecondCancelNoEffect ==
    [][\A w \in 1..Len(wobj) :
          (wobj[w].cancels >= 1 /\ wobj'[w].cancels = wobj[w].cancels + 1) =>
              /\ mWatchers' = mWatchers
              /\ \A v \in 1..Len(wobj) : wobj'[v].closes = wobj[v].closes]_vars

\* the step is a call of Close
IsClose == closeCalls' = closeCalls + 1

\* the Manager as Close leaves it
Stopped(ch, mw, pr) == ch = "nil" /\ mw = EmptyMap /\ Tracked(pr) = {}

(***************************************************************************)
(* C18: every call of Close, before, during or without a Run, returns      *)
(* without a panic and leaves the Manager stopped; stateCh is closed by    *)
(* the first call only; a call of Close on a stopped Manager closes        *)
(* nothing and changes nothing.                                            *)
(***************************************************************************)
C18_CloseIdempotent ==
    [][IsClose =>
          /\ ~panicked'
          /\ sigClosed'
          /\ Stopped(mStateCh', mWatchers', proxies')
          /\ closeCalls >= 1 => (mStateCh = "nil" /\ UNCHANGED <<sigClosed, mStateCh, sigBuf>>)
          /\ Stopped(mStateCh, mWatchers, proxies) =>
                UNCHANGED <<sigClosed, mStateCh, sigBuf, subscribed, mWatchers, wobj,
                            proxies, insts, logged, runPc, runErr>>]_vars

\* Close was called twice on a Manager whose Run was never called and that
\* had a watcher
C18_Witness ==
    /\ closeCalls = 2
    /\ runPc = "idle"
    /\ ~panicked
    /\ \E w \in 1..Len(wobj) : wobj[w].born = 0 /\ wobj[w].closes = 1

(***************************************************************************)
(* C19: stateCh is never closed while it is registered with the local      *)
(* registry, so that no registry change sends on a closed channel and      *)
(* panics.                                                                 *)
(***************************************************************************)
C19_NeverClosedWhileSubscribed ==
    /\ ~(sigClosed /\ subscribed)
    /\ ~panicked

\* no state of p has a snapshot that its forwarding goroutine still has to
\* broadcast
NoBroadcastPending(p) ==
    \A g \in 1..Len(insts[p]) : insts[p][g].snapCh = <<>> /\ insts[p][g].held = <<>>

(***************************************************************************)
(* C20: when no broadcast for p is pending and a watcher of p that is in   *)
(* the registry and was not cancelled has emptied its channel, the last    *)
(* value it received is the snapshot of the latest notify call for p since *)
(* its Watch.                                                              *)
(***************************************************************************)
C20_EndsOnLatest ==
    \A w \in 1..Len(wobj) :
        (/\ w \in WatchersOf(mWatchers, wobj[w].proxy)
         /\ wobj[w].cancels = 0
         /\ closeCalls = 0
         /\ wobj[w].bl # <<>>
         /\ NoBroadcastPending(wobj[w].proxy)
         /\ wobj[w].q = <<>>)
        => wobj[w].last = <<wobj[w].bl[Len(wobj[w].bl)]>>

====
